---- MODULE Spec2Model ----
(***************************************************************************)
(* PaintCanvas: a freehand drawing surface.  The repository holds two      *)
(* versions of the component:                                              *)
(*                                                                         *)
(*   src/unnamed/part_000   state currentPoints / currentPath /            *)
(*                          completedPaths, class PointsToSvgConverter,    *)
(*                          colour picker and image capture;               *)
(*   src/PaintCanvas.tsx    state points / intermediatePaths / finalPaths, *)
(*                          class _PointsToSvgConverter, colour and stroke *)
(*                          size taken from props.                         *)
(*                                                                         *)
(* Both are modelled.  The definitions of part_000 carry the source's      *)
(* names; those of PaintCanvas.tsx that would collide carry the leading    *)
(* underscore of its _PointsToSvgConverter.  The variable `variant` says   *)
(* which of the two files is the mounted component; the state of the other *)
(* one stays as constructed.                                               *)
(*                                                                         *)
(* Numbers are integers; `${n}` (number to string) is the decimal text of  *)
(* n and is kept as n; a / 2 is kept as the fraction [num, den].           *)
(* A path string  "M x0, y0 L x0, y0  x1, y1 "  is kept as the record      *)
(* [M |-> <<x0, y0>>, cmd |-> "L", pairs |-> << <<x0, y0>>, <<x1, y1>> >>] *)
(* and the empty string as EmptyD.                                         *)
(***************************************************************************)
EXTENDS Integers, Sequences, FiniteSets, TLC

\* ------------------------------------------------------------------ bounds
\* most events (touch, layout, colour, capture) handled in one behaviour
MaxEvents == 7
\* most points in a sequence handed to the converter on its own
MaxLen == 3

\* ------------------------------------------------------------------ inputs
\* pageX / pageY of the touch events
PagePoints == {[x |-> 15, y |-> 5], [x |-> 20, y |-> 9]}
\* layout rectangles delivered by onLayout (width and height are not read)
Layouts == {[x |-> 0, y |-> 0], [x |-> 10, y |-> 5]}
\* colours the colour picker reports
PickerColors == {"#ff0000"}
\* props of the PaintCanvas.tsx component
PropsChoices == {[color |-> "#ff0000", strokeSize |-> 3], [color |-> "#0000ff", strokeSize |-> 4]}
\* part_000 reads neither colour nor stroke size from its props
NoProps == [color |-> "", strokeSize |-> 0]
\* points and layout rectangles handed to the converter on its own
ConvPoints == {[x |-> 15, y |-> 5], [x |-> 100, y |-> 100], [x |-> 110, y |-> 100]}
ConvLayouts == {[x |-> 0, y |-> 0], [x |-> 10, y |-> 5], [x |-> 4, y |-> 7]}
\* width and height props handed to render on its own
RequestedSizes == {0, 100, 199, 200, 201, 300, 400, 1000}
\* images the capture facility may resolve with
Images == {"base64A", "base64B"}

VARIABLES
  variant,            \* "part_000" or "PaintCanvas.tsx"
  \* --- src/unnamed/part_000
  currentPoints,      \* state.currentPoints
  currentPath,        \* state.currentPath
  completedPaths,     \* state.completedPaths
  strokeColor,        \* state.strokeColor
  converter,          \* this._pointsToSvgConverter: [_offsetX, _offsetY]
  captures,           \* captureRef promises still pending
  delivered,          \* the calls props.onConvertToImage has received, in order
  \* --- src/PaintCanvas.tsx
  points,             \* state.points
  intermediatePaths,  \* state.intermediatePaths
  finalPaths,         \* state.finalPaths
  props,              \* this.props: [color, strokeSize]
  _converter,         \* this._pointsToSvgConverter: [_offsetX, _offsetY]
  \* --- the event stream, as observed
  gesture,            \* "dragging": a start was handled and no end since; else "idle"
  moves,              \* number of move events handled since the last start
  events,             \* number of events handled
  last,               \* the kind of the last event handled
  \* --- the converter exercised on its own
  call,               \* the last call made on the converter: [op, input, output]
  layoutSeen          \* the layout rectangle last delivered, if any

vars == <<variant, currentPoints, currentPath, completedPaths, strokeColor, converter,
          captures, delivered, points, intermediatePaths, finalPaths, props, _converter,
          gesture, moves, events, last, call, layoutSeen>>

varsA == <<currentPoints, currentPath, completedPaths, strokeColor, converter, captures,
           delivered>>
varsB == <<points, intermediatePaths, finalPaths, _converter>>

\* ------------------------------------------------------ rendered elements
EmptyD == [M |-> <<>>, cmd |-> "", pairs |-> <<>>]

\* <Path /> : a path element without a d attribute
BlankPath == [type |-> "Path", blank |-> TRUE]

\* a / b of two numbers, as a fraction
Div(a, b) == [num |-> a, den |-> b]

\* state.strokeSize, set by the constructor and never assigned again
strokeSize == 3

\* ------------------------------------------- part_000: PointsToSvgConverter
NewConverter == [_offsetX |-> 0, _offsetY |-> 0]

\* mutants of setOffsets: the two fields exchanged; the offsets added up
setOffsets_Swapped(c, layout) == [_offsetX |-> layout.y, _offsetY |-> layout.x]
setOffsets_Accumulate(c, layout) ==
  [_offsetX |-> c._offsetX + layout.x, _offsetY |-> c._offsetY + layout.y]

setOffsets(c, layout) == [_offsetX |-> layout.x, _offsetY |-> layout.y]

RECURSIVE forEachPair(_, _, _)
\* points.forEach(point => path = `${path} ${point.x - offsetX}, ${point.y - offsetY} `)
forEachPair(c, pts, path) ==
  IF pts = <<>> THEN path
  ELSE forEachPair(c, Tail(pts),
         [path EXCEPT !.pairs = Append(@, <<Head(pts).x - c._offsetX,
                                            Head(pts).y - c._offsetY>>)])

\* mutant of pointsToSvgPath: the first point is not listed again after the move
pointsToSvgPath_NoRepeat(c, pts) ==
  IF Len(pts) > 0
  THEN forEachPair(c, Tail(pts), [M |-> <<pts[1].x - c._offsetX, pts[1].y - c._offsetY>>,
                                  cmd |-> "L", pairs |-> <<>>])
  ELSE EmptyD

pointsToSvgPath(c, pts) ==
  IF Len(pts) > 0
  THEN forEachPair(c, pts, [M |-> <<pts[1].x - c._offsetX, pts[1].y - c._offsetY>>,
                            cmd |-> "L", pairs |-> <<>>])
  ELSE EmptyD

pointToSvgCircle(c, point) == [x |-> point.x - c._offsetX, y |-> point.y - c._offsetY]

\* ------------------------------------------------ part_000: the handlers
\* <Path d=... stroke=... strokeWidth=... fill="none" />
PathElement(d, stroke, width) ==
  [type |-> "Path", blank |-> FALSE, d |-> d, stroke |-> stroke, strokeWidth |-> width,
   fill |-> "none"]

\* <Circle cx=... cy=... r=... stroke=... fill=... />
CircleElement(c, point, size, colour) ==
  [type |-> "Circle", cx |-> pointToSvgCircle(c, point).x,
   cy |-> pointToSvgCircle(c, point).y, r |-> Div(size, 2),
   stroke |-> colour, fill |-> colour]

\* newPoints = this.state.currentPoints; newPoints.push({x, y})
GrantPoints(stroke, p) == Append(stroke, p)

onPanResponderGrant(p) ==
  /\ variant = "part_000"
  /\ currentPoints' = GrantPoints(currentPoints, p)
  /\ gesture' = "dragging"
  /\ moves' = 0
  /\ last' = "start"
  /\ UNCHANGED <<currentPath, completedPaths, strokeColor, converter, captures, delivered>>
  /\ UNCHANGED varsB

\* mutants of MovePath: the path is built from the points before the push;
\* the path is built only from the third point on
MovePath_Stale(c, newPoints, old, colour) ==
  IF Len(newPoints) > 1
  THEN PathElement(pointsToSvgPath(c, SubSeq(newPoints, 1, Len(newPoints) - 1)), colour,
                   strokeSize)
  ELSE old
MovePath_Late(c, newPoints, old, colour) ==
  IF Len(newPoints) > 2
  THEN PathElement(pointsToSvgPath(c, newPoints), colour, strokeSize)
  ELSE old

\* the current path after a move: rebuilt from all the points once there are two
MovePath(c, newPoints, old, colour) ==
  IF Len(newPoints) > 1
  THEN PathElement(pointsToSvgPath(c, newPoints), colour, strokeSize)
  ELSE old

onPanResponderMove(p) ==
  /\ variant = "part_000"
  /\ currentPoints' = Append(currentPoints, p)
  /\ currentPath' = MovePath(converter, Append(currentPoints, p), currentPath, strokeColor)
  /\ moves' = moves + 1
  /\ last' = "move"
  /\ UNCHANGED <<completedPaths, strokeColor, converter, captures, delivered, gesture>>
  /\ UNCHANGED varsB

\* mutants of ReleasePaths: the dot is pushed for every stroke that has a
\* point; the new entry is put in front of the layer
ReleasePaths_DotAlways(c, completed, stroke, current, colour) ==
  LET pushed == IF Len(stroke) > 1 THEN Append(completed, current) ELSE completed
  IN IF Len(stroke) >= 1
     THEN Append(pushed, CircleElement(c, stroke[1], strokeSize, colour))
     ELSE pushed
ReleasePaths_Unshift(c, completed, stroke, current, colour) ==
  LET pushed == IF Len(stroke) > 1 THEN <<current>> \o completed ELSE completed
  IN IF Len(stroke) = 1
     THEN <<CircleElement(c, stroke[1], strokeSize, colour)>> \o pushed
     ELSE pushed

\* mutant of ReleasePaths: the current path is pushed whatever the stroke holds
ReleasePaths_PushAlways(c, completed, stroke, current, colour) ==
  LET pushed == IF Len(stroke) # 1 THEN Append(completed, current) ELSE completed
  IN IF Len(stroke) = 1
     THEN Append(pushed, CircleElement(c, stroke[1], strokeSize, colour))
     ELSE pushed

\* newFinalPaths after the two pushes of the release handler
ReleasePaths(c, completed, stroke, current, colour) ==
  LET pushed == IF Len(stroke) > 1 THEN Append(completed, current) ELSE completed
  IN IF Len(stroke) = 1
     THEN Append(pushed, CircleElement(c, stroke[1], strokeSize, colour))
     ELSE pushed

\* mutant of ReleasePoints: the stroke is not reset
ReleasePoints_Keep(stroke) == stroke

\* setState({currentPoints: [], ...})
ReleasePoints(stroke) == <<>>

\* setState({currentPath: <Path />, ...})
ReleaseCurrent(current) == BlankPath

onPanResponderRelease ==
  /\ variant = "part_000"
  /\ completedPaths' = ReleasePaths(converter, completedPaths, currentPoints, currentPath,
                                    strokeColor)
  /\ currentPoints' = ReleasePoints(currentPoints)
  /\ currentPath' = ReleaseCurrent(currentPath)
  /\ gesture' = "idle"
  /\ moves' = 0
  /\ last' = "end"
  /\ UNCHANGED <<strokeColor, converter, captures, delivered>>
  /\ UNCHANGED varsB

onLayout(layout) ==
  /\ variant = "part_000"
  /\ converter' = setOffsets(converter, layout)
  /\ last' = "layout"
  /\ UNCHANGED <<currentPoints, currentPath, completedPaths, strokeColor, captures,
                 delivered, gesture, moves>>
  /\ UNCHANGED varsB

onColorChangeComplete(color) ==
  /\ variant = "part_000"
  /\ strokeColor' = color
  /\ last' = "colour"
  /\ UNCHANGED <<currentPoints, currentPath, completedPaths, converter, captures,
                 delivered, gesture, moves>>
  /\ UNCHANGED varsB

\* the button press: captureRef(...) is started and its promise is pending
convertPaintCanvasToImage ==
  /\ variant = "part_000"
  /\ captures' = captures + 1
  /\ last' = "capture"
  /\ UNCHANGED <<currentPoints, currentPath, completedPaths, strokeColor, converter,
                 delivered, gesture, moves>>
  /\ UNCHANGED varsB

\* mutant of captureResolved: the handler is called a second time
captureResolved_Twice(base64) ==
  /\ variant = "part_000"
  /\ captures > 0
  /\ captures' = captures - 1
  /\ delivered' = Append(Append(delivered, base64), base64)
  /\ last' = "resolved"
  /\ UNCHANGED <<currentPoints, currentPath, completedPaths, strokeColor, converter,
                 gesture, moves>>
  /\ UNCHANGED varsB

\* a pending promise resolves: .then(base64 => this.props.onConvertToImage(base64))
captureResolved(base64) ==
  /\ variant = "part_000"
  /\ captures > 0
  /\ captures' = captures - 1
  /\ delivered' = Append(delivered, base64)
  /\ last' = "resolved"
  /\ UNCHANGED <<currentPoints, currentPath, completedPaths, strokeColor, converter,
                 gesture, moves>>
  /\ UNCHANGED varsB

\* a pending promise rejects: no handler is attached
captureRejected ==
  /\ variant = "part_000"
  /\ captures > 0
  /\ captures' = captures - 1
  /\ last' = "rejected"
  /\ UNCHANGED <<currentPoints, currentPath, completedPaths, strokeColor, converter,
                 delivered, gesture, moves>>
  /\ UNCHANGED varsB

\* ------------------------------------ PaintCanvas.tsx: _PointsToSvgConverter
_setOffsets(c, layout) == [_offsetX |-> layout.x, _offsetY |-> layout.y]

RECURSIVE _forEachPair(_, _, _)
_forEachPair(c, pts, path) ==
  IF pts = <<>> THEN path
  ELSE _forEachPair(c, Tail(pts),
         [path EXCEPT !.pairs = Append(@, <<Head(pts).x - c._offsetX,
                                            Head(pts).y - c._offsetY>>)])

_pointsToSvgPath(c, pts) ==
  IF Len(pts) > 0
  THEN _forEachPair(c, pts, [M |-> <<pts[1].x - c._offsetX, pts[1].y - c._offsetY>>,
                             cmd |-> "S", pairs |-> <<>>])
  ELSE EmptyD

_pointToSvgCircle(c, point) == [x |-> point.x - c._offsetX, y |-> point.y - c._offsetY]

\* --------------------------------------------- PaintCanvas.tsx: the handlers
\* <Circle cx=... cy=... r=... />
_CircleElement(c, point, size) ==
  [type |-> "Circle", cx |-> _pointToSvgCircle(c, point).x,
   cy |-> _pointToSvgCircle(c, point).y, r |-> Div(size, 2)]

_onPanResponderGrant(p) ==
  /\ variant = "PaintCanvas.tsx"
  /\ points' = Append(points, p)
  /\ intermediatePaths' = Append(intermediatePaths,
                                 _CircleElement(_converter, Append(points, p)[1],
                                                props.strokeSize))
  /\ gesture' = "dragging"
  /\ moves' = 0
  /\ last' = "start"
  /\ UNCHANGED <<finalPaths, _converter>>
  /\ UNCHANGED varsA

\* newIntermediatePaths after the push of the move handler
_MovePaths(c, newPoints, old, pr) ==
  IF Len(newPoints) > 1
  THEN Append(old, PathElement(_pointsToSvgPath(c, newPoints), pr.color, pr.strokeSize))
  ELSE old

_onPanResponderMove(p) ==
  /\ variant = "PaintCanvas.tsx"
  /\ points' = Append(points, p)
  /\ intermediatePaths' = _MovePaths(_converter, Append(points, p), intermediatePaths, props)
  /\ moves' = moves + 1
  /\ last' = "move"
  /\ UNCHANGED <<finalPaths, _converter, gesture>>
  /\ UNCHANGED varsA

\* newFinalPaths after the three pushes of the release handler
_ReleasePaths(c, final, stroke, pr) ==
  LET pushed == IF Len(stroke) > 1
                THEN Append(final, PathElement(_pointsToSvgPath(c, stroke), pr.color,
                                               pr.strokeSize))
                ELSE final
  IN IF Len(stroke) > 0
     THEN pushed \o <<_CircleElement(c, stroke[1], pr.strokeSize),
                      _CircleElement(c, stroke[Len(stroke)], pr.strokeSize)>>
     ELSE pushed

_onPanResponderRelease ==
  /\ variant = "PaintCanvas.tsx"
  /\ finalPaths' = _ReleasePaths(_converter, finalPaths, points, props)
  /\ points' = <<>>
  /\ intermediatePaths' = <<>>
  /\ gesture' = "idle"
  /\ moves' = 0
  /\ last' = "end"
  /\ UNCHANGED _converter
  /\ UNCHANGED varsA

_onLayout(layout) ==
  /\ variant = "PaintCanvas.tsx"
  /\ _converter' = _setOffsets(_converter, layout)
  /\ last' = "layout"
  /\ UNCHANGED <<points, intermediatePaths, finalPaths, gesture, moves>>
  /\ UNCHANGED varsA

\* ------------------------------------------------------------ the machine
Init ==
  /\ variant \in {"part_000", "PaintCanvas.tsx"}
  /\ currentPoints = <<>>
  /\ currentPath = BlankPath
  /\ completedPaths = <<>>
  /\ strokeColor = ""
  /\ converter = NewConverter
  /\ captures = 0
  /\ delivered = <<>>
  /\ points = <<>>
  /\ intermediatePaths = <<>>
  /\ finalPaths = <<>>
  /\ props \in IF variant = "part_000" THEN {NoProps} ELSE PropsChoices
  /\ _converter = NewConverter
  /\ gesture = "idle"
  /\ moves = 0
  /\ events = 0
  /\ last = "none"
  /\ call = [op |-> "none"]
  /\ layoutSeen = [seen |-> FALSE, twice |-> FALSE, x |-> -1, y |-> -1]

\* one event is handled; the component and its props stay the ones mounted
Handle(A) ==
  /\ events < MaxEvents
  /\ A
  /\ events' = events + 1
  /\ UNCHANGED <<variant, props, call, layoutSeen>>

(* The gesture responder delivers a start at any time (a gesture taken away *)
(* from the view ends without a release: no onPanResponderTerminate is      *)
(* registered), and moves and ends only after a start.                      *)
Grant == \E p \in PagePoints : Handle(onPanResponderGrant(p))
Move == \E p \in PagePoints : gesture = "dragging" /\ Handle(onPanResponderMove(p))
Release == gesture = "dragging" /\ Handle(onPanResponderRelease)
Layout == \E l \in Layouts : Handle(onLayout(l))
ColorChange == \E c \in PickerColors : Handle(onColorChangeComplete(c))
Capture == Handle(convertPaintCanvasToImage)
Resolved == \E b \in Images : Handle(captureResolved(b))
Rejected == Handle(captureRejected)
_Grant == \E p \in PagePoints : Handle(_onPanResponderGrant(p))
_Move == \E p \in PagePoints : gesture = "dragging" /\ Handle(_onPanResponderMove(p))
_Release == gesture = "dragging" /\ Handle(_onPanResponderRelease)
_Layout == \E l \in Layouts : Handle(_onLayout(l))

Next ==
  \/ Grant \/ Move \/ Release \/ Layout \/ ColorChange
  \/ Capture \/ Resolved \/ Rejected
  \/ _Grant \/ _Move \/ _Release \/ _Layout

Spec == Init /\ [][Next]_vars

\* ------------------------------------------------------ render on its own
\* the smallest width and height part_000 gives the Svg element
MinSize == 200

\* mutant of SvgSize: the comparison inverted
SvgSize_Inverted(requested) == IF requested <= MinSize THEN requested ELSE MinSize

\* part_000: this.props.width >= 200 ? this.props.width : 200 (and the height alike)
SvgSize(requested) == IF requested >= MinSize THEN requested ELSE MinSize

\* part_000: the width and height of the Svg element
render(w, h) == [width |-> SvgSize(w), height |-> SvgSize(h)]

\* PaintCanvas.tsx: width={this.props.width} height={this.props.height}
_render(w, h) == [width |-> w, height |-> h]

RenderFrame == UNCHANGED <<variant, props, events, currentPoints, currentPath,
                           completedPaths, strokeColor, captures, delivered, points,
                           intermediatePaths, finalPaths, gesture, moves, last, converter,
                           _converter, layoutSeen>>

Render ==
  \E w \in RequestedSizes, h \in RequestedSizes :
    /\ variant = "part_000"
    /\ call' = [op |-> "render", input |-> [width |-> w, height |-> h],
                output |-> render(w, h)]
    /\ RenderFrame

_Render ==
  \E w \in RequestedSizes, h \in RequestedSizes :
    /\ variant = "PaintCanvas.tsx"
    /\ call' = [op |-> "render", input |-> [width |-> w, height |-> h],
                output |-> _render(w, h)]
    /\ RenderFrame

NextRender == Render \/ _Render

SpecRender == Init /\ [][NextRender]_vars

\* --------------------------------------- the callbacks called in any order
(* The touch and layout callbacks as plain functions of the component: a    *)
(* move or an end is also handled when no start came before it.             *)
AnyGrant == \E p \in PagePoints : Handle(onPanResponderGrant(p))
AnyMove == \E p \in PagePoints : Handle(onPanResponderMove(p))
AnyRelease == Handle(onPanResponderRelease)
AnyLayout == \E l \in Layouts : Handle(onLayout(l))
_AnyGrant == \E p \in PagePoints : Handle(_onPanResponderGrant(p))
_AnyMove == \E p \in PagePoints : Handle(_onPanResponderMove(p))
_AnyRelease == Handle(_onPanResponderRelease)
_AnyLayout == \E l \in Layouts : Handle(_onLayout(l))

NextAnyOrder ==
  \/ AnyGrant \/ AnyMove \/ AnyRelease \/ AnyLayout
  \/ _AnyGrant \/ _AnyMove \/ _AnyRelease \/ _AnyLayout

SpecAnyOrder == Init /\ [][NextAnyOrder]_vars

\* ------------------------------------------- the converter on its own
(* The converter of the mounted component receives layout notifications and *)
(* is asked for conversions of arbitrary inputs, in any order.              *)
BoundedSeq(S, n) == UNION {[1..k -> S] : k \in 0..n}

\* what the mounted component's converter returns
ConvertPath(pts) ==
  IF variant = "part_000" THEN pointsToSvgPath(converter, pts)
  ELSE _pointsToSvgPath(_converter, pts)
ConvertCircle(p) ==
  IF variant = "part_000" THEN pointToSvgCircle(converter, p)
  ELSE _pointToSvgCircle(_converter, p)

ConvFrame == UNCHANGED <<variant, props, events, currentPoints, currentPath,
                         completedPaths, strokeColor, captures, delivered, points,
                         intermediatePaths, finalPaths, gesture, moves, last>>

SetOffsets ==
  \E l \in ConvLayouts :
    /\ IF variant = "part_000"
       THEN converter' = setOffsets(converter, l) /\ UNCHANGED _converter
       ELSE _converter' = _setOffsets(_converter, l) /\ UNCHANGED converter
    /\ call' = [op |-> "setOffsets", input |-> l]
    /\ layoutSeen' = [seen |-> TRUE,
                      twice |-> layoutSeen.seen /\ l.x = layoutSeen.x /\ l.y = layoutSeen.y,
                      x |-> l.x, y |-> l.y]
    /\ ConvFrame

PointsToSvgPath ==
  \E pts \in BoundedSeq(ConvPoints, MaxLen) :
    /\ call' = [op |-> "pointsToSvgPath", input |-> pts, output |-> ConvertPath(pts)]
    /\ UNCHANGED <<converter, _converter, layoutSeen>>
    /\ ConvFrame

PointToSvgCircle ==
  \E p \in ConvPoints :
    /\ call' = [op |-> "pointToSvgCircle", input |-> p, output |-> ConvertCircle(p)]
    /\ UNCHANGED <<converter, _converter, layoutSeen>>
    /\ ConvFrame

NextConverter == SetOffsets \/ PointsToSvgPath \/ PointToSvgCircle

SpecConverter == Init /\ [][NextConverter]_vars

\* ------------------------------------------------------------- vocabulary
\* the mounted component's stroke, layers, converter and stroke size
Stroke == IF variant = "part_000" THEN currentPoints ELSE points
Completed == IF variant = "part_000" THEN completedPaths ELSE finalPaths
Offset == IF variant = "part_000" THEN converter ELSE _converter
Size == IF variant = "part_000" THEN strokeSize ELSE props.strokeSize
CurrentShowsNothing ==
  IF variant = "part_000" THEN currentPath = BlankPath ELSE intermediatePaths = <<>>

\* the point p in canvas-local coordinates under converter state c
Local(p, c) == <<p.x - c._offsetX, p.y - c._offsetY>>

\* e is a dot at point p under converter state c, of radius size / 2
IsDotAt(e, p, c, size) ==
  /\ e.type = "Circle"
  /\ <<e.cx, e.cy>> = Local(p, c)
  /\ e.r.num * 2 = size * e.r.den

\* e is a drawn path (one with a descriptor)
IsPath(e) == e.type = "Path" /\ ~e.blank

\* the descriptor d lists exactly the points pts, in order, under converter state c
Through(d, pts, c) ==
  /\ Len(pts) > 0
  /\ d.M = Local(pts[1], c)
  /\ Len(d.pairs) = Len(pts)
  /\ \A i \in 1..Len(pts) : d.pairs[i] = Local(pts[i], c)

\* the converter states a layout notification can have left
Offsets == {NewConverter} \cup {setOffsets(NewConverter, l) : l \in Layouts}

\* the entries the last step added to the completed layer
Gained == SubSeq(Completed', Len(Completed) + 1, Len(Completed'))

\* the points recorded by the gesture in progress: its start and its moves
GesturePts == SubSeq(Stroke, Len(Stroke) - moves, Len(Stroke))

\* the descriptor d ends with the points pts, in order, under converter state c
Covers(d, pts, c) ==
  /\ Len(d.pairs) >= Len(pts)
  /\ \A i \in 1..Len(pts) : d.pairs[Len(d.pairs) - Len(pts) + i] = Local(pts[i], c)

\* the current layer, as the sequence of its elements
CurrentLayer == IF variant = "part_000" THEN <<currentPath>> ELSE intermediatePaths

IsPrefix(s, t) == Len(s) <= Len(t) /\ SubSeq(t, 1, Len(s)) = s

\* the step handles an end event after a start and k moves of this gesture
EndsTap == last' = "end" /\ moves = 0
EndsDrag == last' = "end" /\ moves > 0

\* ------------------------------------------------------------------- C1
\* C1 (as claimed): a start immediately followed by an end adds exactly one
\* entry to the completed layer, a dot centred at the start point minus the
\* current offset, of radius strokeSize / 2.  Stated for part_000.
C1_TapAddsOneDot ==
  [][(variant = "part_000" /\ EndsTap) =>
       /\ Len(Gained) = 1
       /\ IsDotAt(Gained[1], Stroke[Len(Stroke)], Offset, Size)]_vars

\* C1 (as claimed), for PaintCanvas.tsx
C1_TapAddsOneDot_tsx ==
  [][(variant = "PaintCanvas.tsx" /\ EndsTap) =>
       /\ Len(Gained) = 1
       /\ IsDotAt(Gained[1], Stroke[Len(Stroke)], Offset, Size)]_vars

C4_AppendOnly ==
  [][/\ IsPrefix(Completed, Completed')
     /\ (Completed' # Completed => last' = "end")]_vars

\* a second gesture has been appended after the first
C4_Witness ==
  /\ variant = "part_000"
  /\ last = "end"
  /\ Len(completedPaths) = 2
  /\ completedPaths[1] # completedPaths[2]

\* ------------------------------------------------------------------- C5
\* C5 (as claimed): after a start event carrying point p the stroke holds
\* exactly the one point p, whatever came before.
C5_StartBeginsNewStroke ==
  [][\A p \in PagePoints :
       (onPanResponderGrant(p) \/ _onPanResponderGrant(p)) => Stroke' = <<p>>]_vars

\* ------------------------------------------------------------------- C6
\* C6 (as claimed): after a move that brings the stroke to two or more
\* points the current layer holds a single path, one that reflects all the
\* points the gesture has recorded so far.
C6_CurrentReplaced ==
  [][last' = "move" =>
       /\ Len(CurrentLayer') = 1
       /\ IsPath(CurrentLayer'[1])
       /\ Covers(CurrentLayer'[1].d, GesturePts', Offset)]_vars

\* C6 (amended): after a move the last element of the current layer is a
\* path through all the points of the stroke so far (which ends with the
\* points the gesture recorded), converted with the offset in force.  In
\* part_000 it is the only element: it has replaced the layer.  In
\* PaintCanvas.tsx the layer is extended: the path is appended after the dot
\* of the start and the paths of the earlier moves.
C6_CurrentReflectsStroke ==
  [][last' = "move" =>
       LET e == CurrentLayer'[Len(CurrentLayer')]
       IN /\ IsPath(e)
          /\ Through(e.d, Stroke', Offset)
          /\ Covers(e.d, GesturePts', Offset)
          /\ IF variant = "part_000"
             THEN Len(CurrentLayer') = 1
             ELSE /\ CurrentLayer' = Append(CurrentLayer, e)
                  /\ Len(CurrentLayer) >= 1]_vars

\* two moves after a start: the second path reflects three points
C6_Witness ==
  /\ last = "move"
  /\ moves = 2
  /\ Len(Stroke) = 3
  /\ IsPath(CurrentLayer[Len(CurrentLayer)])
  /\ Len(CurrentLayer[Len(CurrentLayer)].d.pairs) = 3

C8_PathDescriptor ==
  call.op = "pointsToSvgPath" =>
    IF Len(call.input) = 0
    THEN call.output = EmptyD
    ELSE /\ call.output.M = <<call.input[1].x - Offset._offsetX,
                              call.input[1].y - Offset._offsetY>>
         /\ Len(call.output.pairs) = Len(call.input)
         /\ call.output.pairs[1] = call.output.M
         /\ \A i \in 1..Len(call.input) :
              call.output.pairs[i] = <<call.input[i].x - Offset._offsetX,
                                       call.input[i].y - Offset._offsetY>>

\* three distinct points converted under a non-zero offset
C8_Witness ==
  /\ variant = "part_000"
  /\ call.op = "pointsToSvgPath"
  /\ Len(call.input) = 3
  /\ call.input[1] # call.input[2]
  /\ converter._offsetX = 10
  /\ Len(call.output.pairs) = 3

\* ------------------------------------------------------------------- C9
\* the offset the most recent layout notification delivered, (0, 0) before
\* the first one
Delivered ==
  IF layoutSeen.seen THEN [_offsetX |-> layoutSeen.x, _offsetY |-> layoutSeen.y]
  ELSE [_offsetX |-> 0, _offsetY |-> 0]

\* C9: every conversion, of a path or of a dot, subtracts the offset of the
\* most recent layout notification, and (0, 0) when none has arrived.
C9_LatestOffset ==
  /\ call.op = "pointToSvgCircle" =>
       <<call.output.x, call.output.y>> = Local(call.input, Delivered)
  /\ (call.op = "pointsToSvgPath" /\ Len(call.input) > 0) =>
       Through(call.output, call.input, Delivered)

\* offset (10, 5) and point (15, 5) give (5, 0)
C9_Witness ==
  /\ call.op = "pointToSvgCircle"
  /\ layoutSeen.seen /\ layoutSeen.x = 10 /\ layoutSeen.y = 5
  /\ call.input = [x |-> 15, y |-> 5]
  /\ call.output = [x |-> 5, y |-> 0]

\* ------------------------------------------------------------------ C10
\* C10: a setOffsets call with the values of the call before it changes no
\* descriptor the converter produces afterwards: every path and every dot
\* comes out as after the single call.
C10_SetOffsetsIdempotent ==
  [][(call'.op = "setOffsets" /\ layoutSeen'.twice) =>
       /\ \A pts \in BoundedSeq(ConvPoints, MaxLen) : ConvertPath(pts)' = ConvertPath(pts)
       /\ \A p \in ConvPoints : ConvertCircle(p)' = ConvertCircle(p)]_vars

\* a conversion made after two setOffsets calls with the same non-zero values
C10_Witness ==
  /\ layoutSeen.twice
  /\ layoutSeen.x = 10
  /\ call.op = "pointsToSvgPath"
  /\ Len(call.input) = 2

\* ------------------------------------------------------------------ C11
\* C11: an end event that finds the stroke with no points renders nothing:
\* the completed layer is left as it was, and the stroke and the current
\* layer are empty afterwards.
C11_EmptyEndRendersNothing ==
  [][(last' = "end" /\ Len(Stroke) = 0) =>
       /\ Completed' = Completed
       /\ Stroke' = <<>>
       /\ CurrentShowsNothing']_vars

\* an end event handled first of all: the stroke it found had no points
C11_Witness ==
  /\ last = "end"
  /\ events = 1
  /\ Completed = <<>>
  /\ Stroke = <<>>

\* ------------------------------------------------------------------ C12
\* C12: the handler is called only when a pending capture resolves, once,
\* with the image the capture resolved with, and that capture is pending no
\* longer; a capture becomes pending only by a request, one per request; a
\* capture that rejects, or never settles, calls nothing.  So every request
\* leads to at most one call.
C12_ExportDelivery ==
  [][/\ \A b \in Images : captureResolved(b) => delivered' = Append(delivered, b)
     /\ delivered' # delivered =>
          /\ last' = "resolved"
          /\ captures > 0
          /\ captures' = captures - 1
          /\ Len(delivered') = Len(delivered) + 1
          /\ IsPrefix(delivered, delivered')
     /\ captures' > captures => (last' = "capture" /\ captures' = captures + 1)
     /\ last' = "rejected" => (delivered' = delivered /\ captures' = captures - 1)]_vars

\* two requests, one resolved with an image and delivered, one still pending
C12_Witness ==
  /\ last = "resolved"
  /\ delivered = <<"base64B">>
  /\ captures = 1

\* ------------------------------------------------------------------ C13
\* the requested size, raised to 200 when it is smaller
Clamped(n) == IF n >= 200 THEN n ELSE 200

\* C13 (as claimed): the rendered width is the requested width when it is
\* >= 200 and 200 otherwise, and likewise the height, each on its own.
C13_MinimumSize ==
  call.op = "render" =>
    /\ call.output.width = Clamped(call.input.width)
    /\ call.output.height = Clamped(call.input.height)

\* C13 (amended): part_000 renders the requested width when it is >= 200 and
\* 200 otherwise, and likewise the height, each on its own; PaintCanvas.tsx
\* renders the requested width and height as they are, with no minimum.
C13_MinimumSizeInOneFile ==
  call.op = "render" =>
    IF variant = "part_000"
    THEN /\ call.output.width = Clamped(call.input.width)
         /\ call.output.height = Clamped(call.input.height)
    ELSE call.output = call.input

\* part_000 asked for 199 x 300 renders 200 x 300
C13_Witness ==
  /\ variant = "part_000"
  /\ call.op = "render"
  /\ call.input = [width |-> 199, height |-> 300]
  /\ call.output = [width |-> 200, height |-> 300]

\* ------------------------------------------------------------------ C14
\* C14 (as claimed): a move event of an active gesture appends its point to
\* the end of the stroke and changes no earlier point, and after a start
\* followed by k moves the stroke holds exactly k + 1 points, in the order
\* of arrival.
C14_StrokeIsStartPlusMoves ==
  [][\A p \in PagePoints :
       (onPanResponderMove(p) \/ _onPanResponderMove(p)) =>
         /\ Stroke' = Append(Stroke, p)
         /\ Len(Stroke') = moves' + 1]_vars

\* the part of C14 that the code satisfies: a move appends its point to the
\* stroke and changes no earlier point
C14_MoveAppends ==
  [][\A p \in PagePoints :
       (onPanResponderMove(p) \/ _onPanResponderMove(p)) =>
         Stroke' = Append(Stroke, p)]_vars

\* ------------------------------------------------------------------ C15
\* C15 (as claimed): a move event that arrives when no gesture is active
\* leaves the stroke, the current layer and the completed layer unchanged.
C15_IdleMoveIsNoOp ==
  [][(last' = "move" /\ gesture = "idle") =>
       /\ Stroke' = Stroke
       /\ CurrentLayer' = CurrentLayer
       /\ Completed' = Completed]_vars

\* ------------------------------------------------------------------ C16
\* an entry the end event may add for the stroke it found: a dot when the
\* stroke has one point, a path through all its points when it has more
EntryFitsStroke(e, stroke) ==
  \/ e.type = "Circle" /\ Len(stroke) = 1
  \/ /\ IsPath(e)
     /\ Len(stroke) >= 2
     /\ \E c \in Offsets : Through(e.d, stroke, c)

\* C16 (as claimed): whatever starts, moves, ends and layout changes came
\* before, every entry an end event appends is a dot for a one-point stroke
\* or a path that covers all the two or more points of the stroke; no blank
\* path and no path that misses points is appended.  Stated for part_000.
C16_EntriesFitStroke ==
  [][(variant = "part_000" /\ last' = "end") =>
       \A i \in 1..Len(Gained) : EntryFitsStroke(Gained[i], Stroke)]_vars

\* C16 (as claimed), for PaintCanvas.tsx
C16_EntriesFitStroke_tsx ==
  [][(variant = "PaintCanvas.tsx" /\ last' = "end") =>
       \A i \in 1..Len(Gained) : EntryFitsStroke(Gained[i], Stroke)]_vars

\* ------------------------------------------------------------------ C17
\* the coordinates of entry e are those of points of the stroke under
\* converter state c: a dot at one of its points, a path through its first
\* k points (a path without descriptor has no coordinates)
ConvertedWith(e, stroke, c) ==
  \/ e.type = "Circle" /\ \E i \in 1..Len(stroke) : <<e.cx, e.cy>> = Local(stroke[i], c)
  \/ e.type = "Path" /\ e.blank
  \/ IsPath(e) /\ \E k \in 1..Len(stroke) : Through(e.d, SubSeq(stroke, 1, k), c)

\* C17 (as claimed): every entry an end event appends has its coordinates
\* converted with the offset in force when the end event is handled, also
\* when a layout change came after the last move; dots and paths alike.
C17_OffsetAtEnd ==
  [][last' = "end" =>
       \A i \in 1..Len(Gained) : ConvertedWith(Gained[i], Stroke, Offset)]_vars

\* C17 (as claimed), for PaintCanvas.tsx alone, where it holds
C17_OffsetAtEnd_tsx ==
  [][(variant = "PaintCanvas.tsx" /\ last' = "end") =>
       \A i \in 1..Len(Gained) : ConvertedWith(Gained[i], Stroke, Offset)]_vars
====
